---- MODULE Spec2Model ----
(***************************************************************************)
(* Creative Design Server (app/main.py, app/models.py): user creation,     *)
(* image upload, AI-proxied skin analysis and the per-user result listing. *)
(*                                                                         *)
(* Requests are handled by the processes of Procs.  A handler is cut into  *)
(* steps at its accesses to the shared database, the upload directory and  *)
(* the AI server, so that requests served by different workers interleave  *)
(* at exactly those points.  The step that ends a request puts its         *)
(* response (status, detail, body) in out.                                 *)
(***************************************************************************)
EXTENDS Integers, Sequences, FiniteSets, TLC

\* ---------------------------------------------------------------- bounds
\* number of request-handling processes (workers) running concurrently
NumProcs == 2
\* create_user requests served
MaxUsers == 2
\* upload requests that get as far as the file write
MaxUploads == 2
\* analyze requests that get as far as the AI server call
MaxAnalyses == 2
\* faults of the environment: the AI server going down or answering with an
\* error or an unusable body, a failing file write, a photo removed from outside
MaxFaults == 1

Procs == 1..NumProcs

\* ------------------------------------------------------- program constants
\* tasks = ["acne", "hemo", "mela", "pore", "wrinkle"]
tasks == <<"acne", "hemo", "mela", "pore", "wrinkle">>

Tasks == {tasks[i] : i \in 1..Len(tasks)}

\* if ext not in [".jpg", ".jpeg", ".png"]
AllowedExtWithGif == {".jpg", ".jpeg", ".png", ".gif"}

AllowedExt == {".jpg", ".jpeg", ".png"}

\* ------------------------------------------------------------------ inputs
\* display names given to create_user ("none" is name=None)
Names == {"kim"}

\* suffixes of the uploaded file's name, as Path(file.filename).suffix gives them
Suffixes == {".PNG", ".gif"}

TaskIndex(t) == CHOOSE i \in 1..Len(tasks) : tasks[i] = t

\* the ratios in the JSON body of the AI server's n-th answer for an image:
\* the five ratios of a body differ, and so do the ratios of two answers
AIRatios(n) == [t \in Tasks |-> 10 * n + TaskIndex(t)]

\* --------------------------------------------------------- pure functions
\* str.lower() on the suffixes
LowerIdentity(s) == s

Lower(s) ==
    CASE s = ".JPG" -> ".jpg"
      [] s = ".PNG" -> ".png"
      [] s = ".GIF" -> ".gif"
      [] OTHER -> s

\* f"{SERVER_BASE_URL}/static/{filename}"
StaticUrl(filename) == [prefix |-> "/static/", name |-> filename]

\* str(UPLOAD_DIR / safe_name), and Path(file_path).name / Path(file_path)
FilePath(filename) == [dir |-> "uploads", name |-> filename]

PathName(path) == path.name

\* ------------------------------------------------------------------- state
VARIABLES
    users,        \* table users: rows [id, name, created_at]
    images,       \* table images: rows [id, user_id, file_path, uploaded_at]
    results,      \* table analysis_results: rows [image_id, score, overlay, created_at]
    storage,      \* names of the files now in UPLOAD_DIR
    written,      \* names of the files the service ever created in UPLOAD_DIR
    ai_up,        \* the AI server is reachable
    ai_requests,  \* image id -> number of requests the AI server received for it
    ai_errors,    \* image id -> how many of them it answered with an error status
    clock,        \* the database server's clock (func.now())
    faults,       \* faults of the environment so far
    pc,           \* position of each process in its handler ("idle": none)
    req,          \* the request a process serves
    session,      \* the process holds an open database session (get_db)
    safe_name,    \* upload_image: the stored file's name, once written
    scores,       \* analyze_image: the ratios collected, in task order
    overlays,     \* analyze_image: the overlay URLs collected, in task order
    out           \* the response the latest step sent, if it sent one, and
                  \* the position (at) of the handler that sent it

db == <<users, images, results>>
disk == <<storage, written>>
env == <<ai_up, ai_requests, ai_errors, clock, faults>>
locals == <<safe_name, scores, overlays>>
procs == <<pc, req, session, safe_name, scores, overlays>>
vars == <<users, images, results, storage, written, ai_up, ai_requests, ai_errors, clock,
          faults, pc, req, session, safe_name, scores, overlays, out>>

UserIds == 1..MaxUsers
ImageIds == 1..MaxUploads

NoReq == [op |-> "none", user_id |-> 0, image_id |-> 0, suffix |-> "", name |-> ""]

NoBody == [user_id |-> 0, image_id |-> 0, image_url |-> {}, scores |-> {},
           overlays |-> {}, results |-> <<>>,
           created_at |-> {}]

\* no response: the latest step was not the last step of a request
NoOut == [at |-> "", req |-> NoReq, status |-> 0, detail |-> "", body |-> NoBody]

\* ------------------------------------------------ persistence and storage
\* the user lookup finds a user whatever the id
UserExistsAlways(user_id) == TRUE

\* db.query(models.User).filter(models.User.id == user_id).first()
UserExists(user_id) == \E u \in users : u.id = user_id

\* db.query(models.Image).filter(Image.id == image_id, Image.user_id == user_id)
FindImageAnyOwner(image_id, user_id) == {i \in images : i.id = image_id}

FindImage(image_id, user_id) ==
    {i \in images : i.id = image_id /\ i.user_id = user_id}

\* db.query(models.AnalysisResult).filter(AnalysisResult.image_id == image_id)
FindExistingNever(image_id) == {}

FindExisting(image_id) == {r \in results : r.image_id = image_id}

\* autoincrement primary keys of tables whose rows are never deleted
NextUserId == Cardinality(users) + 1

NextImageId == Cardinality(images) + 1

\* uuid.uuid4().hex: a value no file name with the same prefix carries yet
NewUuid(kind, user_id, image_id, task) ==
    1 + Cardinality({f \in written : /\ f.kind = kind
                                     /\ f.user_id = user_id
                                     /\ f.image_id = image_id
                                     /\ f.task = task})

\* the stored name carries no random part
SafeNameNoUuid(user_id, ext) ==
    [kind |-> "upload", user_id |-> user_id, image_id |-> 0, task |-> "",
     uuid |-> 1, ext |-> ext]

\* f"user{user_id}_{uuid.uuid4().hex}{ext}"
SafeName(user_id, ext) ==
    [kind |-> "upload", user_id |-> user_id, image_id |-> 0, task |-> "",
     uuid |-> NewUuid("upload", user_id, 0, ""), ext |-> ext]

\* f"user{user_id}_{image_id}_{task}_{uuid.uuid4().hex}.png"
OverlayNameNoTask(user_id, image_id, task) ==
    [kind |-> "overlay", user_id |-> user_id, image_id |-> image_id,
     task |-> "overlay",
     uuid |-> NewUuid("overlay", user_id, image_id, "overlay"), ext |-> ".png"]

OverlayName(user_id, image_id, task) ==
    [kind |-> "overlay", user_id |-> user_id, image_id |-> image_id, task |-> task,
     uuid |-> NewUuid("overlay", user_id, image_id, task), ext |-> ".png"]

\* outcomes of creating and writing a file:
\*   "ok"         the file is written
\*   "fail_open"  open() raises: no file
\*   "fail_write" write() raises after open() created the file
WriteOutcomes == {"ok", "fail_open", "fail_write"}

Created(outcome, name) == IF outcome = "fail_open" THEN {} ELSE {name}

\* the environment may produce outcome o, a fault unless o is the good one
MayFail(o, good) == o = good \/ faults < MaxFaults

Charge(o, good) == faults' = IF o = good THEN faults ELSE faults + 1

\* server_default=func.now(): the clock is read; between two uploads it has
\* advanced or not
Now == {clock, clock + 1}

Init ==
    /\ users = {} /\ images = {} /\ results = {}
    /\ storage = {} /\ written = {}
    /\ ai_up = TRUE
    /\ ai_requests = [i \in ImageIds |-> 0]
    /\ ai_errors = [i \in ImageIds |-> 0]
    /\ clock = 0
    /\ faults = 0
    /\ pc = [p \in Procs |-> "idle"]
    /\ req = [p \in Procs |-> NoReq]
    /\ session = [p \in Procs |-> FALSE]
    /\ safe_name = [p \in Procs |-> {}]
    /\ scores = [p \in Procs |-> <<>>]
    /\ overlays = [p \in Procs |-> <<>>]
    /\ out = NoOut

\* the free process that takes the next request: the processes run the same
\* code, so the request goes to the first free one
Free(p) == pc[p] = "idle" /\ \A q \in Procs : q < p => pc[q] # "idle"

\* a process that serves no request takes request r: get_db opens a session
\* and the handler goes on to its next step
Start(p, r, next) ==
    /\ req' = [req EXCEPT ![p] = r]
    /\ pc' = [pc EXCEPT ![p] = next]
    /\ session' = [session EXCEPT ![p] = TRUE]
    /\ out' = NoOut
    /\ UNCHANGED locals

\* db.close() follows the yield without try/finally: a handler that raises
\* leaves its session open
ReplyNoFinally(p, r, code, text, b) ==
    /\ out' = [at |-> pc[p], req |-> r, status |-> code, detail |-> text, body |-> b]
    /\ pc' = [pc EXCEPT ![p] = "idle"]
    /\ req' = [req EXCEPT ![p] = NoReq]
    /\ session' = [session EXCEPT ![p] = IF code = 200 THEN FALSE ELSE @]
    /\ safe_name' = [safe_name EXCEPT ![p] = {}]
    /\ scores' = [scores EXCEPT ![p] = <<>>]
    /\ overlays' = [overlays EXCEPT ![p] = <<>>]

\* the handler of request r returns or raises: the response is sent, get_db's
\* finally clause closes the session and the handler's locals are gone
Reply(p, r, code, text, b) ==
    /\ out' = [at |-> pc[p], req |-> r, status |-> code, detail |-> text, body |-> b]
    /\ pc' = [pc EXCEPT ![p] = "idle"]
    /\ req' = [req EXCEPT ![p] = NoReq]
    /\ session' = [session EXCEPT ![p] = FALSE]
    /\ safe_name' = [safe_name EXCEPT ![p] = {}]
    /\ scores' = [scores EXCEPT ![p] = <<>>]
    /\ overlays' = [overlays EXCEPT ![p] = <<>>]

\* the handler goes on to its next step
Goto(p, next) ==
    /\ pc' = [pc EXCEPT ![p] = next]
    /\ out' = NoOut
    /\ UNCHANGED <<req, session>>

\* ------------------------------------------------------------- create_user
\* POST /api/v1/users
CreateUser(p, name) ==
    /\ Free(p)
    /\ Cardinality(users) < MaxUsers
    /\ users' = users \cup {[id |-> NextUserId, name |-> name, created_at |-> clock]}
    /\ Reply(p, [NoReq EXCEPT !.op = "create_user", !.name = name],
             200, "", [NoBody EXCEPT !.user_id = NextUserId])
    /\ UNCHANGED <<images, results, disk, env>>

\* ------------------------------------------------------------ upload_image
\* upload requests that are at the file write or have created a file
UploadsStarted ==
    Cardinality({f \in written : f.kind = "upload"})
      + Cardinality({p \in Procs : pc[p] = "upload_write"})

\* ext = Path(file.filename).suffix.lower()
Ext(suffix) == Lower(suffix)

\* POST /api/v1/upload: user lookup and extension check
\* the extension is checked before the user is looked up
UploadCheckExtFirst(p, user_id, suffix) ==
    /\ Free(p)
    /\ LET r == [NoReq EXCEPT !.op = "upload", !.user_id = user_id,
                              !.suffix = suffix]
       IN IF Ext(suffix) \notin AllowedExt
            THEN Reply(p, r, 400, "Invalid file format", NoBody)
          ELSE IF ~UserExists(user_id)
            THEN Reply(p, r, 404, "User not found", NoBody)
          ELSE UploadsStarted < MaxUploads /\ Start(p, r, "upload_write")
    /\ UNCHANGED <<db, disk, env>>

UploadCheck(p, user_id, suffix) ==
    /\ Free(p)
    /\ LET r == [NoReq EXCEPT !.op = "upload", !.user_id = user_id,
                              !.suffix = suffix]
       IN IF ~UserExists(user_id)
            THEN Reply(p, r, 404, "User not found", NoBody)
          ELSE IF Ext(suffix) \notin AllowedExt
            THEN Reply(p, r, 400, "Invalid file format", NoBody)
          ELSE UploadsStarted < MaxUploads /\ Start(p, r, "upload_write")
    /\ UNCHANGED <<db, disk, env>>

\* the exception of a failed write is swallowed and the handler goes on
UploadWriteSwallowing(p) ==
    /\ pc[p] = "upload_write"
    /\ LET name == SafeName(req[p].user_id, Ext(req[p].suffix)) IN
       \E outcome \in WriteOutcomes :
         /\ MayFail(outcome, "ok") /\ Charge(outcome, "ok")
         /\ storage' = storage \cup Created(outcome, name)
         /\ written' = written \cup Created(outcome, name)
         /\ safe_name' = [safe_name EXCEPT ![p] = {name}]
         /\ Goto(p, "upload_insert")
         /\ UNCHANGED <<scores, overlays>>
    /\ UNCHANGED <<db, ai_up, ai_requests, ai_errors, clock>>

\* the stored name is generated and the file is written
UploadWrite(p) ==
    /\ pc[p] = "upload_write"
    /\ LET name == SafeName(req[p].user_id, Ext(req[p].suffix)) IN
       \E outcome \in WriteOutcomes :
         /\ MayFail(outcome, "ok") /\ Charge(outcome, "ok")
         /\ storage' = storage \cup Created(outcome, name)
         /\ written' = written \cup Created(outcome, name)
         /\ IF outcome = "ok"
              THEN /\ safe_name' = [safe_name EXCEPT ![p] = {name}]
                   /\ Goto(p, "upload_insert")
                   /\ UNCHANGED <<scores, overlays>>
              ELSE Reply(p, req[p], 500, "File save failed", NoBody)
    /\ UNCHANGED <<db, ai_up, ai_requests, ai_errors, clock>>

\* the Image row is inserted and the response built
UploadInsert(p) ==
    /\ pc[p] = "upload_insert"
    /\ \E name \in safe_name[p], now \in Now :
         /\ clock' = now
         /\ images' = images \cup {[id |-> NextImageId, user_id |-> req[p].user_id,
                                    file_path |-> FilePath(name), uploaded_at |-> now]}
         /\ Reply(p, req[p], 200, "", [NoBody EXCEPT !.image_id = NextImageId,
                                                     !.image_url = {StaticUrl(name)}])
    /\ UNCHANGED <<users, results, disk, ai_up, ai_requests, ai_errors, faults>>

\* ----------------------------------------------------------- analyze_image
RECURSIVE Total(_, _)
Total(f, S) == IF S = {} THEN 0
               ELSE LET x == CHOOSE y \in S : TRUE IN f[x] + Total(f, S \ {x})

\* analyze requests that may still reach, or have reached, the AI server
AnalysesStarted ==
    Total(ai_requests, ImageIds)
      + Cardinality({p \in Procs : pc[p] \in {"an_file", "an_call"}})

\* the dict that "for t in tasks" fills, once it is complete
ByTask(seq) == [t \in Tasks |-> seq[TaskIndex(t)]]

\* the response of a stored or fresh analysis
AnalysisBody(image_id, score, overlay) ==
    [NoBody EXCEPT !.image_id = image_id, !.scores = {score}, !.overlays = {overlay}]

\* POST /api/v1/analyze/{image_id}: the user lookup, the image lookup by id
\* and owner and the lookup of a stored result, which is returned as it is.
\* The three queries read tables that only grow, so what they return
\* together is what they would return at one moment.
AnalyzeLookup(p, image_id, user_id) ==
    /\ Free(p)
    /\ LET r == [NoReq EXCEPT !.op = "analyze", !.user_id = user_id,
                              !.image_id = image_id]
       IN IF ~UserExists(user_id)
            THEN Reply(p, r, 404, "User not found", NoBody)
          ELSE IF FindImage(image_id, user_id) = {}
            THEN Reply(p, r, 404, "Image not found for this user", NoBody)
          ELSE IF FindExisting(image_id) # {}
            THEN \E existing \in FindExisting(image_id) :
                   Reply(p, r, 200, "",
                         AnalysisBody(image_id, existing.score, existing.overlay))
          ELSE AnalysesStarted < MaxAnalyses /\ Start(p, r, "an_file")
    /\ UNCHANGED <<db, disk, env>>

\* image_path = Path(image.file_path); image_path.exists()
ImagePath(p) ==
    {PathName(i.file_path) : i \in FindImage(req[p].image_id, req[p].user_id)}

\* the handler goes on to the AI call without looking at the file
AnalyzeFileNoCheck(p) ==
    /\ pc[p] = "an_file"
    /\ Goto(p, "an_call") /\ UNCHANGED locals
    /\ UNCHANGED <<db, disk, env>>

AnalyzeFile(p) ==
    /\ pc[p] = "an_file"
    /\ IF ImagePath(p) \cap storage = {}
         THEN Reply(p, req[p], 404, "Image file not found on server", NoBody)
         ELSE Goto(p, "an_call") /\ UNCHANGED locals
    /\ UNCHANGED <<db, disk, env>>

\* what the AI server answers a request with: an error status, a body that
\* is not JSON, or a JSON body
AIOutcomes == {"error", "not_json", "json"}

\* what "for t in tasks" meets at one feature:
\*   "missing"      the body lacks the key, or its "ratio" or "overlay" member
\*   "bad_overlay"  the overlay member is not decodable base64
\*   "fail_open", "fail_write"  the overlay is decoded and the write fails
\*   "ok"           {"ratio": r, "overlay": <base64>}, and the file is written
Fates == {"ok", "missing", "bad_overlay", "fail_open", "fail_write"}

\* the courses the loop can take: every feature before stop is fine and
\* feature stop, if there is one, meets the fate how
Courses ==
    {[stop |-> Len(tasks) + 1, how |-> "ok"]} \cup
    {[stop |-> k, how |-> h] : k \in 1..Len(tasks), h \in Fates \ {"ok"}}

\* the loop goes on past a feature it cannot process, with no value for it
RECURSIVE ForTasksSkipping(_, _, _, _, _, _, _, _)
ForTasksSkipping(k, course, ai, user_id, image_id, sc, ov, files) ==
    IF k > Len(tasks)
      THEN [error |-> "", scores |-> sc, overlays |-> ov, files |-> files]
      ELSE LET t == tasks[k]
               fate == IF k = course.stop THEN course.how ELSE "ok"
               name == OverlayName(user_id, image_id, t)
           IN IF fate = "ok"
                THEN ForTasksSkipping(k + 1, course, ai, user_id, image_id,
                                      Append(sc, ai[t]), Append(ov, StaticUrl(name)),
                                      files \cup {name})
                ELSE ForTasksSkipping(k + 1, course, ai, user_id, image_id,
                                      Append(sc, 0), Append(ov, StaticUrl("")),
                                      files)

\* the loop removes the overlay files it has written when a feature fails
RECURSIVE ForTasksCleaning(_, _, _, _, _, _, _, _)
ForTasksCleaning(k, course, ai, user_id, image_id, sc, ov, files) ==
    IF k > Len(tasks)
      THEN [error |-> "", scores |-> sc, overlays |-> ov, files |-> files]
      ELSE LET t == tasks[k]
               fate == IF k = course.stop THEN course.how ELSE "ok"
               name == OverlayName(user_id, image_id, t)
           IN CASE fate = "missing" ->
                     [error |-> "Internal Server Error", scores |-> sc,
                      overlays |-> ov, files |-> {}]
                [] fate \in {"bad_overlay", "fail_open", "fail_write"} ->
                     [error |-> "Overlay save failed", scores |-> Append(sc, ai[t]),
                      overlays |-> ov, files |-> {}]
                [] fate = "ok" ->
                     ForTasksCleaning(k + 1, course, ai, user_id, image_id,
                                      Append(sc, ai[t]), Append(ov, StaticUrl(name)),
                                      files \cup {name})

\* "for t in tasks", from the k-th task on: ratio = ai_res[t]["ratio"],
\* scores[t] = ratio, overlays[t] = save_overlay_file(...).  sc and ov are the
\* values collected so far, files the files created so far; error is the
\* detail of the exception that ends the loop, if one does.
RECURSIVE ForTasks(_, _, _, _, _, _, _, _)
ForTasks(k, course, ai, user_id, image_id, sc, ov, files) ==
    IF k > Len(tasks)
      THEN [error |-> "", scores |-> sc, overlays |-> ov, files |-> files]
      ELSE LET t == tasks[k]
               fate == IF k = course.stop THEN course.how ELSE "ok"
               name == OverlayName(user_id, image_id, t)
           IN CASE fate = "missing" ->
                     [error |-> "Internal Server Error", scores |-> sc,
                      overlays |-> ov, files |-> files]
                [] fate = "bad_overlay" ->
                     [error |-> "Overlay save failed", scores |-> Append(sc, ai[t]),
                      overlays |-> ov, files |-> files]
                [] fate \in {"fail_open", "fail_write"} ->
                     [error |-> "Overlay save failed", scores |-> Append(sc, ai[t]),
                      overlays |-> ov, files |-> files \cup Created(fate, name)]
                [] fate = "ok" ->
                     ForTasks(k + 1, course, ai, user_id, image_id,
                              Append(sc, ai[t]), Append(ov, StaticUrl(name)),
                              files \cup {name})

\* response.raise_for_status()
RaisesForStatusNever(outcome) == FALSE

RaisesForStatus(outcome) == outcome = "error"

\* after an error status of the AI server the request is sent again
AnalyzeCallRetrying(p) ==
    /\ pc[p] = "an_call"
    /\ IF ImagePath(p) \cap storage = {} \/ ~ai_up
         THEN /\ Reply(p, req[p], 500, "Failed to connect AI server", NoBody)
              /\ UNCHANGED <<ai_requests, ai_errors, faults, disk>>
         ELSE /\ ai_requests' = [ai_requests EXCEPT ![req[p].image_id] = @ + 1]
              /\ \E outcome \in AIOutcomes, course \in Courses :
                   /\ outcome # "json" => course.how = "ok"
                   /\ MayFail(outcome, "json") /\ MayFail(course.how, "ok")
                   /\ faults' = IF outcome = "json" /\ course.how = "ok"
                                  THEN faults ELSE faults + 1
                   /\ ai_errors' = IF outcome = "error"
                                     THEN [ai_errors EXCEPT ![req[p].image_id] = @ + 1]
                                     ELSE ai_errors
                   /\ IF RaisesForStatus(outcome)
                        THEN /\ Goto(p, "an_call")
                             /\ UNCHANGED <<locals, disk>>
                      ELSE IF outcome # "json"
                        THEN /\ Reply(p, req[p], 500, "Internal Server Error", NoBody)
                             /\ UNCHANGED disk
                      ELSE LET ai == AIRatios(ai_requests'[req[p].image_id])
                               run == ForTasks(1, course, ai, req[p].user_id,
                                               req[p].image_id, <<>>, <<>>, {})
                           IN /\ storage' = storage \cup run.files
                              /\ written' = written \cup run.files
                              /\ IF run.error = ""
                                   THEN /\ scores' = [scores EXCEPT ![p] = run.scores]
                                        /\ overlays' = [overlays EXCEPT ![p] =
                                                          run.overlays]
                                        /\ Goto(p, "an_insert")
                                        /\ UNCHANGED safe_name
                                   ELSE Reply(p, req[p], 500, run.error, NoBody)
    /\ UNCHANGED <<db, ai_up, clock>>

\* the image is opened and posted to the AI server, the body is parsed and
\* the five features are processed.  The loop touches the handler's locals
\* and creates files that no other request reads, so it is one step with
\* the call.
AnalyzeCall(p) ==
    /\ pc[p] = "an_call"
    /\ IF ImagePath(p) \cap storage = {} \/ ~ai_up
         THEN /\ Reply(p, req[p], 500, "Failed to connect AI server", NoBody)
              /\ UNCHANGED <<ai_requests, ai_errors, faults, disk>>
         ELSE /\ ai_requests' = [ai_requests EXCEPT ![req[p].image_id] = @ + 1]
              /\ \E outcome \in AIOutcomes, course \in Courses :
                   /\ outcome # "json" => course.how = "ok"
                   /\ MayFail(outcome, "json") /\ MayFail(course.how, "ok")
                   /\ faults' = IF outcome = "json" /\ course.how = "ok"
                                  THEN faults ELSE faults + 1
                   /\ ai_errors' = IF outcome = "error"
                                     THEN [ai_errors EXCEPT ![req[p].image_id] = @ + 1]
                                     ELSE ai_errors
                   /\ IF RaisesForStatus(outcome)
                        THEN /\ Reply(p, req[p], 500, "Failed to connect AI server",
                                      NoBody)
                             /\ UNCHANGED disk
                      ELSE IF outcome # "json"
                        THEN /\ Reply(p, req[p], 500, "Internal Server Error", NoBody)
                             /\ UNCHANGED disk
                      ELSE LET ai == AIRatios(ai_requests'[req[p].image_id])
                               run == ForTasks(1, course, ai, req[p].user_id,
                                               req[p].image_id, <<>>, <<>>, {})
                           IN /\ storage' = storage \cup run.files
                              /\ written' = written \cup run.files
                              /\ IF run.error = ""
                                   THEN /\ scores' = [scores EXCEPT ![p] = run.scores]
                                        /\ overlays' = [overlays EXCEPT ![p] =
                                                          run.overlays]
                                        /\ Goto(p, "an_insert")
                                        /\ UNCHANGED safe_name
                                   ELSE Reply(p, req[p], 500, run.error, NoBody)
    /\ UNCHANGED <<db, ai_up, clock>>

\* the analysis_results table admits one row per image: the INSERT of a
\* second row for an image fails with an integrity error
InsertConflictNever(image_id) == FALSE

InsertConflict(image_id) == \E r \in results : r.image_id = image_id

\* models.AnalysisResult(image_id=image_id, acne=scores["acne"], ...)
ResultRowFirstScore(image_id, sc, ov, now) ==
    [image_id |-> image_id, score |-> [t \in Tasks |-> sc[tasks[1]]],
     overlay |-> ov, created_at |-> now]

ResultRow(image_id, sc, ov, now) ==
    [image_id |-> image_id, score |-> sc, overlay |-> ov, created_at |-> now]

\* db.merge(result): the row of the image is replaced if there is one
AnalyzeInsertMerging(p) ==
    /\ pc[p] = "an_insert"
    /\ results' = {r \in results : r.image_id # req[p].image_id}
                    \cup {ResultRow(req[p].image_id, ByTask(scores[p]),
                                    ByTask(overlays[p]), clock)}
    /\ Reply(p, req[p], 200, "",
             AnalysisBody(req[p].image_id, ByTask(scores[p]), ByTask(overlays[p])))
    /\ UNCHANGED <<users, images, disk, env>>

\* db.add(result); db.commit(); the response is built from scores, overlays
AnalyzeInsert(p) ==
    /\ pc[p] = "an_insert"
    /\ IF InsertConflict(req[p].image_id)
         THEN /\ Reply(p, req[p], 500, "Internal Server Error", NoBody)
              /\ UNCHANGED results
         ELSE /\ results' = results \cup {ResultRow(req[p].image_id, ByTask(scores[p]),
                                                    ByTask(overlays[p]), clock)}
              /\ Reply(p, req[p], 200, "",
                       AnalysisBody(req[p].image_id, ByTask(scores[p]),
                                    ByTask(overlays[p])))
    /\ UNCHANGED <<users, images, disk, env>>

\* -------------------------------------------------------- get_user_results
\* db.query(Image, AnalysisResult).outerjoin(...).filter(Image.user_id == user_id):
\* an image's row is paired with each result of the image, or with none
Matched(user_id) ==
    UNION {{[img |-> i, analysis |-> {r}] : r \in FindExisting(i.id)} :
             i \in {j \in images : j.user_id = user_id}}

Unmatched(user_id) ==
    {[img |-> i, analysis |-> {}] :
        i \in {j \in images : j.user_id = user_id /\ FindExisting(j.id) = {}}}

InnerJoin(user_id) == Matched(user_id)

OuterJoin(user_id) == Matched(user_id) \cup Unmatched(user_id)

\* .order_by(models.Image.uploaded_at.desc()).all(): the orders the database
\* may return the rows in (rows of equal upload time come in any order)
Ascending(rows) ==
    {s \in [1..Cardinality(rows) -> rows] :
        /\ \A a, b \in DOMAIN s : a # b => s[a] # s[b]
        /\ \A a, b \in DOMAIN s :
             a < b => s[a].img.uploaded_at <= s[b].img.uploaded_at}

Descending(rows) ==
    {s \in [1..Cardinality(rows) -> rows] :
        /\ \A a, b \in DOMAIN s : a # b => s[a] # s[b]
        /\ \A a, b \in DOMAIN s :
             a < b => s[a].img.uploaded_at >= s[b].img.uploaded_at}

\* one element of the results list
Entry(row) ==
    [image_id |-> row.img.id,
     image_url |-> StaticUrl(PathName(row.img.file_path)),
     uploaded_at |-> row.img.uploaded_at,
     scores |-> [t \in Tasks |-> {r.score[t] : r \in row.analysis}],
     overlays |-> {r.overlay : r \in row.analysis},
     analysis_created_at |-> {r.created_at : r \in row.analysis}]

\* GET /api/v1/results/user/{user_id}: the user lookup, the join and the
\* list built from its rows
GetUserResults(p, user_id) ==
    /\ Free(p)
    /\ LET r == [NoReq EXCEPT !.op = "list", !.user_id = user_id]
       IN IF ~UserExists(user_id)
            THEN Reply(p, r, 404, "User not found", NoBody)
            ELSE \E rows \in Descending(OuterJoin(user_id)) :
                   Reply(p, r, 200, "", [NoBody EXCEPT !.results =
                                            [k \in DOMAIN rows |-> Entry(rows[k])]])
    /\ UNCHANGED <<db, disk, env>>

\* ------------------------------------------------------- get_image_result
\* a missing result is answered with an empty success
GetImageResultEmpty(p, image_id) ==
    /\ Free(p)
    /\ LET r == [NoReq EXCEPT !.op = "result", !.image_id = image_id]
       IN IF FindExisting(image_id) = {}
            THEN Reply(p, r, 200, "", [NoBody EXCEPT !.image_id = image_id])
            ELSE \E result \in FindExisting(image_id) :
                   Reply(p, r, 200, "", [NoBody EXCEPT !.image_id = image_id,
                                                       !.scores = {result.score},
                                                       !.created_at = {result.created_at}])
    /\ UNCHANGED <<db, disk, env>>

\* GET /results/image/{image_id}: the AnalysisResult is looked up by image id;
\* "Analysis result not found" if there is none, else the five scores and
\* the creation timestamp
GetImageResult(p, image_id) ==
    /\ Free(p)
    /\ LET r == [NoReq EXCEPT !.op = "result", !.image_id = image_id]
       IN IF FindExisting(image_id) = {}
            THEN Reply(p, r, 404, "Analysis result not found", NoBody)
            ELSE \E result \in FindExisting(image_id) :
                   Reply(p, r, 200, "", [NoBody EXCEPT !.image_id = image_id,
                                                       !.scores = {result.score},
                                                       !.created_at = {result.created_at}])
    /\ UNCHANGED <<db, disk, env>>

\* ------------------------------------------------------------- environment
\* the AI server becomes unreachable, or reachable again
AIToggle ==
    /\ ai_up' = ~ai_up
    /\ MayFail(ai_up', TRUE) /\ Charge(ai_up', TRUE)
    /\ out' = NoOut
    /\ UNCHANGED <<db, disk, ai_requests, ai_errors, clock, procs>>

\* an uploaded photo is removed from the upload directory from outside
ExternalDelete ==
    /\ faults < MaxFaults
    /\ faults' = faults + 1
    /\ \E f \in storage :
         /\ f.kind = "upload"
         /\ storage' = storage \ {f}
    /\ out' = NoOut
    /\ UNCHANGED <<db, written, ai_up, ai_requests, ai_errors, clock, procs>>

Next ==
    \/ \E p \in Procs, name \in Names : CreateUser(p, name)
    \/ \E p \in Procs, user_id \in UserIds, suffix \in Suffixes :
         UploadCheck(p, user_id, suffix)
    \/ \E p \in Procs : UploadWrite(p)
    \/ \E p \in Procs : UploadInsert(p)
    \/ \E p \in Procs, image_id \in ImageIds, user_id \in UserIds :
         AnalyzeLookup(p, image_id, user_id)
    \/ \E p \in Procs : AnalyzeFile(p)
    \/ \E p \in Procs : AnalyzeCall(p)
    \/ \E p \in Procs : AnalyzeInsert(p)
    \/ \E p \in Procs, user_id \in UserIds : GetUserResults(p, user_id)
    \/ \E p \in Procs, image_id \in ImageIds : GetImageResult(p, image_id)
    \/ AIToggle
    \/ ExternalDelete

Spec == Init /\ [][Next]_vars

\* ================================================================ claims
\* the stored results of image i, the owners of image i, the users of id u
Stored(i) == {r \in results : r.image_id = i}

Owners(i) == {img.user_id : img \in {j \in images : j.id = i}}

Known(u) == \E x \in users : x.id = u

\* the latest step took an analyze request for image i by user u and
\* answered it at once
AnsweredAtOnce(i, u) ==
    /\ out'.at = "idle" /\ out'.req.op = "analyze"
    /\ out'.req.image_id = i /\ out'.req.user_id = u

\* ------------------------------------------------------------------- C1
ShortCircuitStep ==
    /\ \A i \in ImageIds, u \in UserIds :
         (AnsweredAtOnce(i, u) /\ Known(u) /\ u \in Owners(i) /\ Stored(i) # {})
           => /\ out'.status = 200
              /\ \E r \in Stored(i) :
                   out'.body = [NoBody EXCEPT !.image_id = i, !.scores = {r.score},
                                              !.overlays = {r.overlay}]
              /\ UNCHANGED <<ai_requests, results, written>>
    /\ \A p \in Procs :
         (pc[p] = "idle" /\ pc'[p] = "an_file") => Stored(req'[p].image_id) = {}
    /\ \A i \in ImageIds :
         ai_requests'[i] # ai_requests[i]
           => \E p \in Procs : pc[p] = "an_call" /\ req[p].image_id = i
    /\ results' # results
         => \E p \in Procs :
              /\ pc[p] = "an_insert" /\ Stored(req[p].image_id) = {}
              /\ \E r \in results' : r.image_id = req[p].image_id
                                      /\ results' = results \cup {r}

\* every stored result holds the ratios of one answer of the AI server
StoredFromOneAnswer ==
    \A i \in ImageIds :
      /\ Cardinality(Stored(i)) <= 1
      /\ \A r \in Stored(i) : \E n \in 1..ai_requests[i] : r.score = AIRatios(n)

\* C1: once an analyze request for image i has stored a result, every later
\* analyze request for i by its owner is answered with exactly the stored
\* scores and overlays and sends nothing to the AI server, reachable or not;
\* at most one request to the AI server leads to a stored result of i.
C1_IdempotentShortCircuit == [][ShortCircuitStep]_vars /\ []StoredFromOneAnswer

\* a stored result was returned while the AI server was unreachable
C1_Witness ==
    /\ out.at = "idle" /\ out.req.op = "analyze" /\ out.status = 200
    /\ ~ai_up
    /\ ai_requests[out.req.image_id] = 1

LoserStep ==
    \A p \in Procs :
      (pc[p] = "an_insert" /\ pc'[p] # "an_insert" /\ Stored(req[p].image_id) # {})
        => /\ out'.at = "an_insert" /\ out'.req = req[p]
           /\ out'.status = 500 /\ out'.body = NoBody
           /\ results' = results

AICallFails(p) ==
    /\ pc[p] = "an_call" /\ pc'[p] # "an_call"
    /\ \/ ~ai_up
       \/ ai_errors'[req[p].image_id] # ai_errors[req[p].image_id]

UpstreamFailureStep ==
    \A p \in Procs :
      /\ AICallFails(p)
           => /\ out'.at = "an_call" /\ out'.req = req[p]
              /\ out'.status = 500 /\ out'.detail = "Failed to connect AI server"
              /\ out'.body = NoBody
              /\ UNCHANGED <<results, written>>
      \* a complete answer whose features are all processed goes on to the insert
      /\ (pc[p] = "an_call" /\ pc'[p] # "an_call" /\ ai_requests' # ai_requests
            /\ faults' = faults)
           => pc'[p] = "an_insert"
      \* after an earlier failure for the image, the insert stores the one row
      \* of the image, unless a racing request stored it first
      /\ (pc[p] = "an_insert" /\ pc'[p] # "an_insert"
            /\ ai_errors[req[p].image_id] > 0)
           => LET i == req[p].image_id IN
              /\ Cardinality({r \in results' : r.image_id = i}) = 1
              /\ out'.status = IF Stored(i) = {} THEN 200 ELSE 500

OwnershipStep ==
    /\ \A i \in ImageIds, u \in UserIds :
         (AnsweredAtOnce(i, u) /\ Known(u) /\ Owners(i) # {} /\ u \notin Owners(i))
           => /\ out'.status = 404
              /\ out'.detail = "Image not found for this user"
              /\ out'.body = NoBody
              /\ UNCHANGED <<ai_requests, results, written>>
    /\ \A p \in Procs, i \in ImageIds, u \in UserIds :
         (pc[p] = "idle" /\ pc'[p] # "idle" /\ req'[p].op = "analyze"
            /\ req'[p].image_id = i /\ req'[p].user_id = u)
           => u \in Owners(i)

\* only the owner of an image has an analyze request for it in progress
OnlyOwnersInProgress ==
    \A p \in Procs :
      pc[p] \in {"an_file", "an_call", "an_insert"}
        => req[p].user_id \in Owners(req[p].image_id)

\* C5: an analyze request for image i by an existing user who does not own i
\* fails with 404 "Image not found for this user", contacts no AI server,
\* creates no result and returns no stored scores, whether or not i has a
\* result.
C5_OwnershipCheck == [][OwnershipStep]_vars /\ []OnlyOwnersInProgress

\* a user was refused the analysis of another user's analysed image
C5_Witness ==
    /\ out.at = "idle" /\ out.req.op = "analyze"
    /\ out.status = 404 /\ out.detail = "Image not found for this user"
    /\ Known(out.req.user_id)
    /\ Stored(out.req.image_id) # {}

\* ------------------------------------------------------------------- C6
\* the latest step is p's AI call and feature loop, and something in it failed
FeatureFailure(p) ==
    /\ pc[p] = "an_call" /\ pc'[p] # "an_call"
    /\ ai_requests' # ai_requests /\ ai_errors' = ai_errors
    /\ faults' # faults

NoPartialSuccessStep ==
    /\ \A p \in Procs :
         FeatureFailure(p)
           => /\ pc'[p] = "idle"
              /\ out'.at = "an_call" /\ out'.req = req[p]
              /\ out'.status = 500 /\ out'.body = NoBody
              /\ results' = results
    /\ results' # results
         => \E p \in Procs : pc[p] = "an_insert" /\ pc'[p] = "idle"

\* a request at its insert holds a score and an overlay for each feature
CompleteAtInsert ==
    \A p \in Procs :
      pc[p] = "an_insert" => Len(scores[p]) = Len(tasks) /\ Len(overlays[p]) = Len(tasks)

\* C6: an analyze request that fails while the five features are processed
\* (a feature missing from the answer, or an overlay that cannot be decoded
\* or written, at the k-th feature) ends with an internal error and persists
\* no result; a result is persisted only by a request that holds all five.
C6_NoPartialSuccess == [][NoPartialSuccessStep]_vars /\ []CompleteAtInsert

\* the overlay of the last feature failed after the first four were written
C6_Witness ==
    /\ out.at = "an_call" /\ out.status = 500 /\ out.detail = "Overlay save failed"
    /\ \E f \in written : f.kind = "overlay" /\ f.task = "pore"
                           /\ f.image_id = out.req.image_id
    /\ ~\E f \in written : f.kind = "overlay" /\ f.task = "wrinkle"
    /\ results = {}

\* ------------------------------------------------------------------- C7
\* the latest step took an upload of user u with suffix x and answered at once
UploadAnswered(u, x) ==
    /\ out'.at = "idle" /\ out'.req.op = "upload"
    /\ out'.req.user_id = u /\ out'.req.suffix = x

Accepted(x) == Lower(x) \in {".jpg", ".jpeg", ".png"}

InvalidFormatStep ==
    /\ \A u \in UserIds, x \in Suffixes :
         (UploadAnswered(u, x) /\ Known(u) /\ ~Accepted(x))
           => /\ out'.status = 400 /\ out'.detail = "Invalid file format"
              /\ UNCHANGED <<images, storage, written>>
    /\ \A p \in Procs :
         (pc[p] = "idle" /\ pc'[p] = "upload_write") => Accepted(req'[p].suffix)

\* C7: an upload by an existing user of a file whose extension, lower-cased,
\* is not .jpg, .jpeg or .png fails with 400 "Invalid file format" and leaves
\* the Image rows and the stored files as they were.
C7_InvalidExtension == [][InvalidFormatStep]_vars

\* a .gif was refused after an image had been uploaded
C7_Witness ==
    /\ out.at = "idle" /\ out.req.op = "upload" /\ out.req.suffix = ".gif"
    /\ out.status = 400
    /\ images # {}

\* ------------------------------------------------------------------- C8
UnknownUserStep ==
    /\ \A u \in UserIds, x \in Suffixes :
         (UploadAnswered(u, x) /\ ~Known(u))
           => /\ out'.status = 404 /\ out'.detail = "User not found"
              /\ UNCHANGED <<images, storage, written>>
    /\ \A p \in Procs :
         (pc[p] = "idle" /\ pc'[p] = "upload_write") => Known(req'[p].user_id)

\* C8: an upload for a user id that does not exist fails with 404 "User not
\* found" and writes no Image row and no file, whatever the extension: with
\* an invalid extension too the answer is 404, not 400.
C8_UnknownUser == [][UnknownUserStep]_vars

\* a .gif for a nonexistent user was answered with 404
C8_Witness ==
    /\ out.at = "idle" /\ out.req.op = "upload" /\ out.req.suffix = ".gif"
    /\ ~Known(out.req.user_id)
    /\ out.status = 404

\* ------------------------------------------------------------------- C9
Owned(u) == {i \in images : i.user_id = u}

\* entry e of a listing shows image i with its analysis, or with none
Shows(e, i) ==
    /\ e.image_id = i.id /\ e.uploaded_at = i.uploaded_at
    /\ IF Stored(i.id) = {}
         THEN /\ \A t \in Tasks : e.scores[t] = {}
              /\ e.overlays = {}
              /\ e.analysis_created_at = {}
         ELSE /\ \A t \in Tasks : e.scores[t] = {r.score[t] : r \in Stored(i.id)}
              /\ e.overlays = {r.overlay : r \in Stored(i.id)}
              /\ e.analysis_created_at = {r.created_at : r \in Stored(i.id)}
              /\ \A t \in Tasks : Cardinality(e.scores[t]) = 1
              /\ Cardinality(e.overlays) = 1
              /\ Cardinality(e.analysis_created_at) = 1

ListingStep ==
    \A u \in UserIds :
      (out'.at = "idle" /\ out'.req.op = "list" /\ out'.req.user_id = u /\ Known(u))
        => LET list == out'.body.results IN
           /\ out'.status = 200
           /\ Len(list) = Cardinality(Owned(u))
           /\ \A i \in Owned(u) : \E k \in DOMAIN list : Shows(list[k], i)
           /\ \A k \in DOMAIN list : \E i \in Owned(u) : list[k].image_id = i.id
           /\ \A a, b \in DOMAIN list :
                a < b => list[a].uploaded_at >= list[b].uploaded_at
           /\ UNCHANGED <<db, disk>>

\* C9: the listing of an existing user has exactly one entry for each image
\* the user owns and none for other images (the empty list when the user owns
\* none), in descending order of upload time, and an entry carries scores,
\* overlays and analysis_created_at exactly when its image has a result.
C9_Listing == [][ListingStep]_vars

\* a listing of two images, the first analysed and the second not
C9_Witness ==
    /\ out.at = "idle" /\ out.req.op = "list" /\ out.status = 200
    /\ Len(out.body.results) = 2
    /\ out.body.results[1].overlays # {}
    /\ out.body.results[2].overlays = {}

\* ------------------------------------------------------------------ C10
\* url is the URL under /static/ of a written overlay file of task t that
\* carries user id u and image id i in its name
NamesOverlay(url, u, i, t) ==
    \E f \in written :
      /\ url = [prefix |-> "/static/", name |-> f]
      /\ f.kind = "overlay" /\ f.user_id = u /\ f.image_id = i /\ f.task = t

\* the overlay URLs a request holds at its insert, and those of every stored
\* result, name written files
OverlaysWritten ==
    /\ \A p \in Procs :
         pc[p] = "an_insert"
           => /\ Len(overlays[p]) = Len(tasks)
              /\ \A k \in 1..Len(tasks) :
                   NamesOverlay(overlays[p][k], req[p].user_id, req[p].image_id,
                                tasks[k])
    /\ \A r \in results, t \in Tasks :
         \E u \in UserIds : NamesOverlay(r.overlay[t], u, r.image_id, t)

FiveOverlaysStep ==
    \A p \in Procs :
      \* the features of a complete answer are processed: five new files
      /\ (pc[p] = "an_call" /\ pc'[p] = "an_insert")
           => LET new == written' \ written IN
              /\ Cardinality(new) = Len(tasks)
              /\ \A t \in Tasks :
                   Cardinality({f \in new : /\ f.kind = "overlay" /\ f.task = t
                                            /\ f.user_id = req[p].user_id
                                            /\ f.image_id = req[p].image_id}) = 1
              /\ new \subseteq storage'
      \* the row is inserted and the response returned: the same five URLs
      /\ (pc[p] = "an_insert" /\ pc'[p] = "idle" /\ out'.status = 200)
           => /\ written' = written
              /\ out'.body.overlays = {[t \in Tasks |-> overlays[p][TaskIndex(t)]]}
              /\ \E r \in results' \ results :
                   /\ r.image_id = req[p].image_id
                   /\ out'.body.overlays = {r.overlay}

\* C10: a successful first analysis writes exactly five overlay files, one
\* per feature of acne, hemo, mela, pore, wrinkle, and the five URLs in the
\* response and in the stored result each name one of them (under /static/,
\* with user id, image id and task in the file name); every overlay URL of a
\* stored result names a file written before the row was inserted.
C10_FiveOverlays == [][FiveOverlaysStep]_vars /\ []OverlaysWritten

\* a first analysis has succeeded and its five files are in storage
C10_Witness ==
    /\ out.at = "an_insert" /\ out.status = 200
    /\ Cardinality({f \in storage : f.kind = "overlay"
                                    /\ f.image_id = out.req.image_id}) = 5
    /\ Cardinality(Stored(out.req.image_id)) = 1

\* ------------------------------------------------------------------ C11
DistinctUploadStep ==
    \A p \in Procs :
      \* the write creates a file that no earlier upload or overlay created
      /\ (pc[p] = "upload_write" /\ pc'[p] = "upload_insert")
           => /\ \E f \in safe_name'[p] :
                   f \notin written /\ written' = written \cup {f}
                                    /\ storage' = storage \cup {f}
              /\ faults' = faults
      /\ (pc[p] = "upload_write" /\ pc'[p] # "upload_write" /\ faults' = faults)
           => pc'[p] = "upload_insert"
      \* the insert adds one row with a new id and succeeds
      /\ (pc[p] = "upload_insert" /\ pc'[p] # "upload_insert")
           => /\ out'.status = 200
              /\ \E i \in images' \ images :
                   /\ images' = images \cup {i}
                   /\ \A j \in images : j.id # i.id /\ j.file_path # i.file_path
                   /\ i.user_id = req[p].user_id
                   /\ out'.body.image_id = i.id

\* no two Image rows share an id or a stored file
DistinctImages ==
    \A i, j \in images : (i.id = j.id \/ i.file_path = j.file_path) => i = j

\* C11: two uploads of the same content by one user, one after the other or
\* concurrently, both succeed (unless a file write fails) and give two Image
\* rows with two stored file names: no upload writes over the file of another
\* and the uploads are not merged.
C11_DistinctUploads == [][DistinctUploadStep]_vars /\ []DistinctImages

\* one user has uploaded two files of the same extension
C11_Witness ==
    \E i, j \in images :
      /\ i.id # j.id /\ i.user_id = j.user_id
      /\ i.file_path.name.ext = j.file_path.name.ext
      /\ i.file_path # j.file_path
      /\ {i.file_path.name, j.file_path.name} \subseteq storage

\* ------------------------------------------------------------------ C12
\* the latest step answered a request for the result of image i
ResultAnswered(i) ==
    out'.at = "idle" /\ out'.req.op = "result" /\ out'.req.image_id = i

ImageResultStep ==
    \A i \in ImageIds :
      ResultAnswered(i)
        => /\ IF Stored(i) = {}
                THEN /\ out'.status = 404
                     /\ out'.detail = "Analysis result not found"
                     /\ out'.body.scores = {}
                ELSE /\ out'.status = 200
                     /\ out'.body.image_id = i
                     /\ out'.body.scores = {r.score : r \in Stored(i)}
                     /\ \A sc \in out'.body.scores : DOMAIN sc = Tasks
           /\ UNCHANGED <<db, disk, ai_requests>>

\* C12: fetching the result of an image that was never analysed fails with
\* 404 "Analysis result not found"; for an analysed image the five stored
\* scores are returned.
C12_ImageResult == [][ImageResultStep]_vars

\* the result of an analysed image was fetched
C12_Witness ==
    /\ out.at = "idle" /\ out.req.op = "result" /\ out.status = 200
    /\ \E r \in Stored(out.req.image_id) : out.body.scores = {r.score}

\* ------------------------------------------------------------------ C13
ImageOwnerStep ==
    /\ \A u \in users : u \in users'
    /\ \A i \in images' \ images : \E u \in users : u.id = i.user_id
    /\ \A p \in Procs :
         pc'[p] \in {"upload_write", "upload_insert"} => Known(req'[p].user_id)

\* every Image row references exactly one User row
OneOwner ==
    \A i \in images : Cardinality({u \in users : u.id = i.user_id}) = 1

\* C13: every Image row references exactly one existing User: an Image is
\* inserted only by an upload whose user lookup found the user, and no step
\* removes a User.
C13_ImageOwner == [][ImageOwnerStep]_vars /\ []OneOwner

\* the second of two users owns an image
C13_Witness ==
    /\ Cardinality(users) = 2
    /\ \E i \in images : i.user_id = 2

\* ------------------------------------------------------------------ C14
\* the names of the stored files of image i
FileOf(i) == {img.file_path.name : img \in {j \in images : j.id = i}}

MissingFileStep ==
    /\ \A p \in Procs :
         (pc[p] = "an_file" /\ pc'[p] # "an_file" /\ FileOf(req[p].image_id) \cap storage = {})
           => /\ pc'[p] = "idle"
              /\ out'.at = "an_file" /\ out'.req = req[p]
              /\ out'.status = 404 /\ out'.detail = "Image file not found on server"
              /\ out'.body = NoBody
              /\ UNCHANGED <<ai_requests, results, written>>
    \* a request at the file check is the owner's, for an image without result
    \* at its arrival, and a file that is missing stays missing
    /\ \A p \in Procs :
         (pc[p] = "idle" /\ pc'[p] = "an_file")
           => /\ req'[p].user_id \in Owners(req'[p].image_id)
              /\ UNCHANGED ai_requests
    /\ \A f \in written : f \notin storage => f \notin storage'

\* C14: an analyze request by the owner of an image without stored result,
\* whose file is missing from storage when the handler looks for it, fails
\* with 404 "Image file not found on server", sends nothing to the AI server
\* and creates no result.
C14_MissingFile == [][MissingFileStep]_vars

\* the photo of an unanalysed image was removed and its analysis refused
C14_Witness ==
    /\ out.at = "an_file" /\ out.status = 404
    /\ Stored(out.req.image_id) = {}
    /\ FileOf(out.req.image_id) # {}
    /\ FileOf(out.req.image_id) \cap storage = {}
    /\ ai_requests[out.req.image_id] = 0

\* ------------------------------------------------------------------ C15
OneCallStep ==
    \* the AI server receives a request only from a handler at its AI call,
    \* which then leaves the call for good
    /\ ai_requests' # ai_requests
         => \E p \in Procs :
              /\ pc[p] = "an_call" /\ pc'[p] \in {"idle", "an_insert"}
              /\ ai_requests' = [ai_requests EXCEPT ![req[p].image_id] = @ + 1]
    /\ \A p \in Procs :
         /\ (pc'[p] = "an_call" /\ pc[p] # "an_call") => pc[p] = "an_file"
         /\ (pc'[p] = "an_file" /\ pc[p] # "an_file") => pc[p] = "idle"
         /\ pc[p] = "an_insert" => pc'[p] \in {"an_insert", "idle"}
         /\ (pc'[p] = "an_insert" /\ pc[p] # "an_insert") => pc[p] = "an_call"
    \* a request that ends at a lookup or at the file check has sent nothing
    /\ (out'.req.op = "analyze" /\ out'.at \in {"idle", "an_file"})
         => UNCHANGED <<ai_requests, ai_errors>>

\* C15: an analyze request sends at most one request to the AI server, with
\* no retry after a failure, and none when it ends at the user lookup, the
\* ownership check, the stored result or the file check.
C15_OneCall == [][OneCallStep]_vars

\* the AI server answered with an error and the request ended without retry
C15_Witness ==
    /\ out.at = "an_call" /\ out.status = 500
    /\ ai_requests[out.req.image_id] = 1
    /\ ai_errors[out.req.image_id] = 1
    /\ \A p \in Procs : pc[p] = "idle"

\* ------------------------------------------------------------------ C16
SessionStep ==
    \A p \in Procs :
      /\ (pc[p] # "idle" /\ pc'[p] = "idle") => ~session'[p]
      /\ (pc[p] = "idle" /\ pc'[p] # "idle") => session'[p]

\* a session is open exactly while its request is being handled
SessionsScoped == \A p \in Procs : session[p] <=> pc[p] # "idle"

\* C16: a request that acquired a database session releases it when it ends,
\* on every exit path (success, an HTTP error of a validation step, a failure
\* of the AI server, an uncaught persistence error); no session stays open
\* after its request.
C16_SessionReleased == [][SessionStep]_vars /\ []SessionsScoped

\* a request ended in an uncaught persistence error and no session is open
C16_Witness ==
    /\ out.at = "an_insert" /\ out.status = 500
    /\ \A p \in Procs : pc[p] = "idle" /\ ~session[p]

\* ------------------------------------------------------------------ C17
WriteBeforeRowStep ==
    /\ \A p \in Procs :
         \* the write fails: 500 and no row
         /\ (pc[p] = "upload_write" /\ pc'[p] # "upload_write" /\ faults' # faults)
              => /\ pc'[p] = "idle"
                 /\ out'.at = "upload_write" /\ out'.req = req[p]
                 /\ out'.status = 500 /\ out'.detail = "File save failed"
                 /\ images' = images
         \* a handler reaches the insert with the file it has written
         /\ pc'[p] = "upload_insert"
              => \A f \in safe_name'[p] : f \in written' /\ f.kind = "upload"
    /\ \A i \in images' \ images :
         \E p \in Procs : /\ pc[p] = "upload_insert"
                          /\ i.file_path.name \in safe_name[p] \cap written

\* the file of every Image row was written by an upload
RowsHaveFiles ==
    \A i \in images : i.file_path.name \in written /\ i.file_path.name.kind = "upload"

\* C17: an Image row is inserted only after its file is written: an upload
\* whose write fails returns 500 "File save failed" and creates no row, so
\* the file_path of every Image row names a file that an upload wrote.
C17_WriteBeforeRow == [][WriteBeforeRowStep]_vars /\ []RowsHaveFiles

\* the write of an upload failed after an earlier upload had succeeded
C17_Witness ==
    /\ out.at = "upload_write" /\ out.status = 500
    /\ Cardinality(images) = 1

\* ------------------------------------------------------------------ C18
\* the row with the key of row r, in table T
SameKey(r, T, key) == {x \in T : x[key] = r[key]}

RowsOnlyAddedStep ==
    /\ \A u \in users : SameKey(u, users', "id") = {u}
    /\ \A i \in images : SameKey(i, images', "id") = {i}
    /\ \A r \in results : SameKey(r, results', "image_id") = {r}

\* C18: no step updates or deletes a User, Image or AnalysisResult row: the
\* tables only grow and a row, once inserted, keeps its attributes, the
\* stored scores and overlay URLs of an image included.
C18_RowsOnlyAdded == [][RowsOnlyAddedStep]_vars

\* a second analysis of an analysed image was attempted and refused
C18_Witness ==
    /\ out.at = "an_insert" /\ out.status = 500
    /\ \E r \in Stored(out.req.image_id) : r.score = AIRatios(1)
    /\ users # {} /\ images # {}

\* ------------------------------------------------------------------ C19
\* the overlay files that a stored result references, and those whose URLs a
\* handler holds for its insert
Referenced == {r.overlay[t].name : r \in results, t \in Tasks}

Held == UNION {{overlays[p][k].name : k \in 1..Len(overlays[p])} : p \in Procs}

\* the loop of a handler at its AI call, if it fails at the feature
\* course.stop, has written a file for each feature before that one
FilesBeforeFailure ==
    \A p \in Procs :
      pc[p] = "an_call"
        => \A course \in {c \in Courses : c.how # "ok"} :
             LET run == ForTasks(1, course, AIRatios(1), req[p].user_id,
                                 req[p].image_id, <<>>, <<>>, {})
             IN /\ run.error # ""
                /\ \A j \in 1..(course.stop - 1) :
                     \E f \in run.files :
                       /\ f.kind = "overlay" /\ f.task = tasks[j]
                       /\ f.user_id = req[p].user_id /\ f.image_id = req[p].image_id
                       /\ f \notin written

OrphansStep ==
    \* the files a failing loop has written are in storage, with no reference
    /\ \A p \in Procs :
         FeatureFailure(p)
           => /\ \E course \in {c \in Courses : c.how # "ok"} :
                   written' \ written =
                     ForTasks(1, course, AIRatios(1), req[p].user_id,
                              req[p].image_id, <<>>, <<>>, {}).files
              /\ \A f \in written' \ written :
                   f \in storage' /\ f \notin Referenced' /\ f \notin Held'
    \* an overlay file without reference never gets one
    /\ \A f \in written :
         (f.kind = "overlay" /\ f \notin Referenced /\ f \notin Held)
           => f \notin Referenced' /\ f \notin Held'
    \* no step of a handler removes a file, and nothing removes an overlay
    /\ \/ storage \subseteq storage'
       \/ /\ pc' = pc /\ out' = NoOut
          /\ \A f \in storage \ storage' : f.kind = "upload"

\* C19: when an analyze request fails at the k-th feature (k > 1), the
\* overlay files it wrote for features 1..k-1 stay in storage and no
\* AnalysisResult references them, then or later; no operation of the
\* service removes a file from storage.
C19_OrphanedOverlays == [][OrphansStep]_vars /\ []FilesBeforeFailure

\* a request failed at the third feature; the overlays of the first two are
\* in storage and no result exists
C19_Witness ==
    /\ out.at = "an_call" /\ out.status = 500
    /\ \A t \in {"acne", "hemo"} :
         \E f \in storage : /\ f.kind = "overlay" /\ f.task = t
                            /\ f.image_id = out.req.image_id
                            /\ f \notin Referenced
    /\ ~\E f \in written : f.kind = "overlay" /\ f.task = "mela"
    /\ results = {}

====
